---------------------------- MODULE Spec2Model ----------------------------
(***************************************************************************)
(* Model of btleplug's BlueZ adapter (src/bluez/adapter.rs): the Central   *)
(* contract of Adapter (events, start_scan, stop_scan, peripherals,        *)
(* peripheral), the error conversion From<BluetoothError> for Error, and   *)
(* the event translator central_event that turns the session's raw         *)
(* BluetoothEvent stream into CentralEvent values through filter_map.      *)
(*                                                                         *)
(* The BluetoothSession (crate bluez_async) is the environment: a device   *)
(* registry keyed by device id, a discovery flag, and raw event streams.   *)
(***************************************************************************)
EXTENDS Integers, Sequences, FiniteSets, TLC

(***************************************************************************)
(* Bounds                                                                  *)
(***************************************************************************)
\* Number of raw notifications the session fires in one run of the pipeline.
MaxRaw == 2

\* Number of raw notifications fired when the translator is run over every raw event.
MaxOne == 1

(***************************************************************************)
(* Values                                                                  *)
(***************************************************************************)
\* Session-local device ids (BlueZ object paths); the same remote device may
\* be known under two ids (one per local radio).
DeviceIds == {"hci0/dev_1", "hci1/dev_1", "hci0/dev_2"}

\* The devices the raw notifications are about.
EventIds == {"hci0/dev_1", "hci1/dev_1"}

\* The registry holds no device under an id.
NoDevice == <<>>

\* A transport MAC address in its native textual form "AA:BB:CC:DD:EE:0n":
\* six groups of two hexadecimal digits (digit values 0..15).
MacText(n) == << <<10, 10>>, <<11, 11>>, <<12, 12>>, <<13, 13>>, <<14, 14>>, <<0, n>> >>

Macs == {MacText(1), MacText(2)}

\* Subscriptions (one per events() call).
Subs == {"sub1", "sub2"}

\* BluetoothError values a session request may fail with.
BluetoothErrors == {"DbusError", "ServiceDiscoveryTimedOut"}

\* Manufacturer data entries (manufacturer_id, data).
MfrApple == <<76, <<2, 21>>>>
MfrNordic == <<89, <<1>>>>

\* HashMap<u16, Vec<u8>> values, written in their iteration order.
MfrMaps == { <<>>, <<MfrApple>>, <<MfrNordic>>, <<MfrApple, MfrNordic>>, <<MfrNordic, MfrApple>> }

RssiValues == {-70, -40}

DeviceEvents ==
    {[kind |-> "Discovered"]}
    \cup {[kind |-> "Connected", connected |-> b] : b \in BOOLEAN}
    \cup {[kind |-> "RSSI", rssi |-> r] : r \in RssiValues}
    \cup {[kind |-> "ManufacturerData", manufacturer_data |-> m] : m \in MfrMaps}
    \cup {[kind |-> "ServicesResolved"]}

\* BluetoothEvent: device events carry a device id, adapter events an adapter id.
RawEvents ==
    {[type |-> "Device", id |-> d, event |-> e] : d \in EventIds, e \in DeviceEvents}
    \cup {[type |-> "Adapter", id |-> "hci0", event |-> [kind |-> "Powered", powered |-> TRUE]]}

\* The raw events of the pipeline runs: every arm of central_event, two devices.
StreamEvents ==
    {[type |-> "Device", id |-> "hci0/dev_1", event |-> e] :
        e \in {[kind |-> "Discovered"],
               [kind |-> "Connected", connected |-> FALSE],
               [kind |-> "ManufacturerData", manufacturer_data |-> <<MfrApple, MfrNordic>>],
               [kind |-> "ServicesResolved"]}}
    \cup {[type |-> "Device", id |-> "hci1/dev_1", event |-> e] :
        e \in {[kind |-> "RSSI", rssi |-> -70],
               [kind |-> "ManufacturerData", manufacturer_data |-> <<>>]}}
    \cup {[type |-> "Adapter", id |-> "hci0", event |-> [kind |-> "Powered", powered |-> TRUE]]}

(***************************************************************************)
(* Pure functions                                                          *)
(***************************************************************************)
\* BDAddr::from(&MacAddress): parses the textual address into six bytes.
BDAddrFrom(mac) == [i \in 1..Len(mac) |-> 16 * mac[i][1] + mac[i][2]]

\* DeviceInfo as returned by the session.
DeviceInfo(id, mac) == [id |-> id, mac_address |-> mac]

\* Result<DeviceInfo, BluetoothError> of one lookup.
LookupOk(info) == [ok |-> TRUE, device |-> <<info>>]
LookupErr == [ok |-> FALSE, device |-> <<>>]

\* BluetoothSession::get_device_info(&id): fails if the id is unknown.
get_device_info(reg, id) ==
    IF reg[id] = NoDevice THEN LookupErr ELSE LookupOk(DeviceInfo(id, reg[id]))

\* BluetoothSession::get_devices(): the registry's entries, in every possible order.
RECURSIVE Orders(_)
Orders(ids) ==
    IF ids = {} THEN {<<>>}
    ELSE UNION {{<<d>> \o rest : rest \in Orders(ids \ {d})} : d \in ids}

get_devices(reg) ==
    {[i \in 1..Len(o) |-> DeviceInfo(o[i], reg[o[i]])] :
        o \in Orders({d \in DeviceIds : reg[d] # NoDevice})}

\* CentralEvent constructors.
DeviceDiscovered(addr) == [tag |-> "DeviceDiscovered", address |-> addr]
DeviceConnected(addr) == [tag |-> "DeviceConnected", address |-> addr]
DeviceDisconnected(addr) == [tag |-> "DeviceDisconnected", address |-> addr]
DeviceUpdated(addr) == [tag |-> "DeviceUpdated", address |-> addr]
ManufacturerDataAdvertisement(addr, mid, data) ==
    [tag |-> "ManufacturerDataAdvertisement", address |-> addr,
     manufacturer_id |-> mid, data |-> data]

\* The match arms of central_event that await session.get_device_info(&id).
NeedsLookup_every_device_event(event) == event.type = "Device"

NeedsLookup(event) ==
    /\ event.type = "Device"
    /\ event.event.kind \in {"Discovered", "Connected", "RSSI", "ManufacturerData"}

\* What central_event returns: ev is the Option<CentralEvent> (a sequence of
\* length 0 or 1), warn tells whether
\* warn!("Got more than one manufacturer data entry.") ran.
Translated(ev, warn) == [ev |-> ev, warn |-> warn]

\* The arms of central_event after their lookup has returned `device`.
\* (The definitions whose names end in a bug's description are the faulty
\* variants the properties below are tested against.)
arm_discovered_as_updated(device) ==
    Translated(<<DeviceUpdated(BDAddrFrom(device.mac_address))>>, FALSE)

arm_discovered(device) ==
    Translated(<<DeviceDiscovered(BDAddrFrom(device.mac_address))>>, FALSE)

arm_connected_flag_ignored(connected, device) ==
    Translated(<<DeviceConnected(BDAddrFrom(device.mac_address))>>, FALSE)

arm_connected(connected, device) ==
    IF connected
    THEN Translated(<<DeviceConnected(BDAddrFrom(device.mac_address))>>, FALSE)
    ELSE Translated(<<DeviceDisconnected(BDAddrFrom(device.mac_address))>>, FALSE)

arm_rssi_as_discovered(rssi, device) ==
    Translated(<<DeviceDiscovered(BDAddrFrom(device.mac_address))>>, FALSE)

arm_rssi(rssi, device) ==
    Translated(<<DeviceUpdated(BDAddrFrom(device.mac_address))>>, FALSE)

arm_manufacturer_data_last_entry(manufacturer_data, device) ==
    LET m == manufacturer_data
    IN  IF m = <<>> THEN Translated(<<>>, Len(m) > 1)
        ELSE Translated(<<ManufacturerDataAdvertisement(BDAddrFrom(device.mac_address),
                                                        m[Len(m)][1], m[Len(m)][2])>>,
                        Len(m) > 1)

arm_manufacturer_data(manufacturer_data, device) ==
    LET m == manufacturer_data
        warn == Len(m) > 1
    IN  IF m = <<>> THEN Translated(<<>>, warn)
        ELSE Translated(<<ManufacturerDataAdvertisement(BDAddrFrom(device.mac_address),
                                                        m[1][1], m[1][2])>>,
                        warn)

\* central_event with the lookup's result `res` (`.ok()?` turns Err into None).
on_device(event, device) ==
    LET e == event.event
    IN  CASE e.kind = "Discovered" -> arm_discovered(device)
          [] e.kind = "Connected" -> arm_connected(e.connected, device)
          [] e.kind = "RSSI" -> arm_rssi(e.rssi, device)
          [] e.kind = "ManufacturerData" -> arm_manufacturer_data(e.manufacturer_data, device)
          [] OTHER -> Translated(<<>>, FALSE)

central_event_unwrap_or_default(event, res) ==
    IF ~NeedsLookup(event) THEN Translated(<<>>, FALSE)
    ELSE IF ~res.ok THEN on_device(event, DeviceInfo(event.id, MacText(0)))
    ELSE on_device(event, res.device[1])

central_event_warns_before_lookup(event, res) ==
    IF ~NeedsLookup(event) THEN Translated(<<>>, FALSE)
    ELSE IF ~res.ok
         THEN Translated(<<>>, event.event.kind = "ManufacturerData"
                                /\ Len(event.event.manufacturer_data) > 1)
    ELSE on_device(event, res.device[1])

central_event(event, res) ==
    IF ~NeedsLookup(event) THEN Translated(<<>>, FALSE)
    ELSE IF ~res.ok THEN Translated(<<>>, FALSE)
    ELSE on_device(event, res.device[1])

\* impl From<BluetoothError> for Error: Error::Other(error.to_string()).
to_string(error) ==
    CASE error = "DbusError" -> "D-Bus error"
      [] error = "ServiceDiscoveryTimedOut" -> "Service discovery timed out"

ErrorFrom(error) == [tag |-> "Other", msg |-> to_string(error)]

ErrorDeviceNotFound == [tag |-> "DeviceNotFound", msg |-> ""]

\* futures::StreamExt::filter_map as used by events(): the next raw item is the
\* head of the raw stream, Some(event) is yielded and None is skipped, and the
\* sequence ends only when the raw stream has ended with nothing left in flight.
NextItem_newest_first(q) == q[Len(q)]

NextItem(q) == Head(q)

Yield(o, opt) == o \o opt

StreamDone_when_idle(closed, q, pend) == q = <<>> /\ pend = <<>>

StreamDone(closed, q, pend) == closed /\ q = <<>> /\ pend = <<>>

\* session.get_device_info(&id).await inside central_event: the lookup is keyed
\* by the notification's id and answered from the registry as it is then.
lookup_cached_at_notification(reg, item) ==
    get_device_info([reg EXCEPT ![item.raw.id] = item.at], item.raw.id)

lookup(reg, item) == get_device_info(reg, item.raw.id)

\* Result<T, Error>
Ok(val) == [ok |-> TRUE, val |-> val, err |-> <<>>]
Err(error) == [ok |-> FALSE, val |-> <<>>, err |-> <<error>>]

\* Peripheral::new(session, device)
PeripheralNew(session, device) == [session |-> session, device |-> device]

\* A session answer: Ok(value) or Err(BluetoothError).
SessionOk(value) == [ok |-> TRUE, value |-> value, error |-> <<>>]
SessionErr(error) == [ok |-> FALSE, value |-> <<>>, error |-> <<error>>]

\* The requests a Central call issues to the session: one await each, whatever
\* the session's discovery state (`scanning`) is.
SessionRequests_skips_when_scanning(op, scanning) ==
    CASE op = "events" -> <<"event_stream">>
      [] op = "start_scan" -> IF scanning THEN <<>> ELSE <<"start_discovery">>
      [] op = "stop_scan" -> IF scanning THEN <<"stop_discovery">> ELSE <<>>
      [] op = "peripherals" -> <<"get_devices">>
      [] op = "peripheral" -> <<"get_devices">>

SessionRequests(op, scanning) ==
    CASE op = "events" -> <<"event_stream">>
      [] op = "start_scan" -> <<"start_discovery">>
      [] op = "stop_scan" -> <<"stop_discovery">>
      [] op = "peripherals" -> <<"get_devices">>
      [] op = "peripheral" -> <<"get_devices">>

\* The sequence events() returns: the filter_map over the raw stream `stream`
\* with its own clone of the session.
EventStream(session, stream) == [session |-> session, stream |-> stream]

\* events(): self.session.event_stream().await?; Ok(Box::pin(events.filter_map(..)))
events_error_as_empty_stream(self, answer, stream) ==
    Ok(<<EventStream(self.session, stream)>>)

events(self, answer, stream) ==
    IF answer.ok THEN Ok(<<EventStream(self.session, stream)>>)
    ELSE Err(ErrorFrom(answer.error[1]))

\* start_scan / stop_scan: self.session.start_discovery().await?; Ok(())
start_scan_error_ignored(self, answer) == Ok(<<>>)

start_scan(self, answer) ==
    IF answer.ok THEN Ok(<<>>) ELSE Err(ErrorFrom(answer.error[1]))

stop_scan(self, answer) ==
    IF answer.ok THEN Ok(<<>>) ELSE Err(ErrorFrom(answer.error[1]))

\* peripherals(): one Peripheral per device of the list, in the list's order.
peripherals_one_per_address(self, answer) ==
    IF ~answer.ok THEN Err(ErrorFrom(answer.error[1]))
    ELSE LET devices == answer.value
             firsts == SelectSeq([i \in 1..Len(devices) |-> i],
                                 LAMBDA i : \A j \in 1..(i - 1) :
                                     devices[j].mac_address # devices[i].mac_address)
         IN  Ok([k \in 1..Len(firsts) |-> PeripheralNew(self.session, devices[firsts[k]])])

peripherals(self, answer) ==
    IF ~answer.ok THEN Err(ErrorFrom(answer.error[1]))
    ELSE Ok([i \in 1..Len(answer.value) |-> PeripheralNew(self.session, answer.value[i])])

\* peripheral(address): find_map over the list, ok_or(Error::DeviceNotFound).
peripheral_last_match(self, answer, address) ==
    IF ~answer.ok THEN Err(ErrorFrom(answer.error[1]))
    ELSE LET devices == answer.value
             hits == {i \in 1..Len(devices) : BDAddrFrom(devices[i].mac_address) = address}
         IN  IF hits = {} THEN Err(ErrorDeviceNotFound)
             ELSE LET final == CHOOSE i \in hits : \A j \in hits : i >= j
                  IN  Ok(<<PeripheralNew(self.session, devices[final])>>)

peripheral_failure_as_empty_list(self, answer, address) ==
    LET devices == answer.value
        hits == {i \in 1..Len(devices) : BDAddrFrom(devices[i].mac_address) = address}
    IN  IF hits = {} THEN Err(ErrorDeviceNotFound)
        ELSE LET first == CHOOSE i \in hits : \A j \in hits : i <= j
             IN  Ok(<<PeripheralNew(self.session, devices[first])>>)

peripheral(self, answer, address) ==
    IF ~answer.ok THEN Err(ErrorFrom(answer.error[1]))
    ELSE LET devices == answer.value
             hits == {i \in 1..Len(devices) : BDAddrFrom(devices[i].mac_address) = address}
         IN  IF hits = {} THEN Err(ErrorDeviceNotFound)
             ELSE LET first == CHOOSE i \in hits : \A j \in hits : i <= j
                  IN  Ok(<<PeripheralNew(self.session, devices[first])>>)

(***************************************************************************)
(* State                                                                   *)
(***************************************************************************)
VARIABLES
    registry,     \* session: device id -> MAC text, or NoDevice
    discovering,  \* session: whether discovery is on
    adapter,      \* the Adapter struct: [session, adapter]
    status,       \* per subscription: "none", "failed", "live", "ended", "dropped"
    sub_err,      \* per subscription: the Err events() returned (0 or 1 element)
    rawq,         \* per subscription: raw events delivered, not yet taken
    rawclosed,    \* per subscription: the session has ended the raw stream
    pending,      \* per subscription: the raw event whose lookup is in flight
    out,          \* per subscription: the CentralEvents yielded so far
    src,          \* per subscription: for each yielded event, the arrival number of its raw event
    order,        \* per subscription: the arrival numbers of the raw events taken, as taken
    last,         \* per subscription: the record of the last finished translation
    failed,       \* per subscription: the arrival numbers of the raw events whose lookup failed
    warnings,     \* number of warn! lines logged
    fired,        \* number of raw notifications fired
    ret           \* result of the last events/start_scan/stop_scan/peripherals/peripheral

vars == <<registry, discovering, adapter, status, sub_err, rawq, rawclosed,
          pending, out, src, order, last, failed, warnings, fired, ret>>

streamVars == <<status, sub_err, rawq, rawclosed, pending, out, src, order, last,
                failed, warnings, fired>>

\* What a Central call left behind: the Result it returned (ok, val, err), its
\* argument, the requests it issued to the session, and what the session answered
\* (devices: the list of get_devices; session_err: the BluetoothError).
Returned(op, arg, result, requests, devices, session_err) ==
    [op |-> op, arg |-> arg, ok |-> result.ok, val |-> result.val, err |-> result.err,
     requests |-> requests, devices |-> devices, session_err |-> session_err]

NoRet == Returned("none", <<>>, Ok(<<>>), <<>>, <<>>, <<>>)

\* Adapter::new(session, adapter)
AdapterNew(session, id) == [session |-> session, adapter |-> id]

Init ==
    /\ registry = [d \in DeviceIds |-> NoDevice]
    /\ discovering = FALSE
    /\ adapter = AdapterNew("session", "hci0")
    /\ status = [s \in Subs |-> "none"]
    /\ sub_err = [s \in Subs |-> <<>>]
    /\ rawq = [s \in Subs |-> <<>>]
    /\ rawclosed = [s \in Subs |-> FALSE]
    /\ pending = [s \in Subs |-> <<>>]
    /\ out = [s \in Subs |-> <<>>]
    /\ src = [s \in Subs |-> <<>>]
    /\ order = [s \in Subs |-> <<>>]
    /\ last = [s \in Subs |-> <<>>]
    /\ failed = [s \in Subs |-> {}]
    /\ warnings = 0
    /\ fired = 0
    /\ ret = NoRet

(***************************************************************************)
(* The session (environment)                                               *)
(***************************************************************************)
\* A device appears, disappears, or is re-announced under another address.
RegistryChange(id, v) ==
    /\ registry[id] # v
    /\ registry' = [registry EXCEPT ![id] = v]
    /\ UNCHANGED <<discovering, adapter, ret>>
    /\ UNCHANGED streamVars

\* What the registry holds for the device a raw event names, when it fires.
FiredAt(reg, e) == IF e.type = "Device" THEN reg[e.id] ELSE NoDevice

\* The session fires a raw notification: it is delivered to every live subscription.
Notify(e, max) ==
    /\ fired < max
    /\ \E s \in Subs : status[s] = "live" /\ ~rawclosed[s]
    /\ fired' = fired + 1
    /\ rawq' = [s \in Subs |->
                  IF status[s] = "live" /\ ~rawclosed[s]
                  THEN Append(rawq[s], [n |-> fired + 1, raw |-> e, at |-> FiredAt(registry, e)])
                  ELSE rawq[s]]
    /\ UNCHANGED <<registry, discovering, adapter, ret>>
    /\ UNCHANGED <<status, sub_err, rawclosed, pending, out, src, order, last, failed, warnings>>

\* The session ends a raw stream (the connection to the daemon is gone).
RawClose(s) ==
    /\ status[s] = "live"
    /\ ~rawclosed[s]
    /\ rawclosed' = [rawclosed EXCEPT ![s] = TRUE]
    /\ UNCHANGED <<registry, discovering, adapter, ret>>
    /\ UNCHANGED <<status, sub_err, rawq, pending, out, src, order, last, failed, warnings, fired>>

(***************************************************************************)
(* Adapter::events and the pipeline it returns                             *)
(***************************************************************************)
\* events(): session.event_stream().await? then Ok(filter_map(...)).
EventsOk(s) ==
    /\ status[s] = "none"
    /\ status' = [status EXCEPT ![s] = "live"]
    /\ ret' = Returned("events", <<>>, events(adapter, SessionOk(<<>>), s),
                       SessionRequests("events", discovering), <<>>, <<>>)
    /\ UNCHANGED <<registry, discovering, adapter>>
    /\ UNCHANGED <<sub_err, rawq, rawclosed, pending, out, src, order, last, failed, warnings, fired>>

EventsErr(s, error) ==
    /\ status[s] = "none"
    /\ status' = [status EXCEPT ![s] = "failed"]
    /\ sub_err' = [sub_err EXCEPT ![s] = <<ErrorFrom(error)>>]
    /\ ret' = Returned("events", <<>>, events(adapter, SessionErr(error), s),
                       SessionRequests("events", discovering), <<>>, <<error>>)
    /\ UNCHANGED <<registry, discovering, adapter>>
    /\ UNCHANGED <<rawq, rawclosed, pending, out, src, order, last, failed, warnings, fired>>

\* filter_map polls the raw stream for the next item only when it holds no
\* pending future: `pend` is the future in flight (0 or 1 element).
ReadyForNext_always(pend) == TRUE

ReadyForNext(pend) == pend = <<>>

\* What is left of a value the dropped sequence owned (the raw stream's buffered
\* items, the pending future): nothing, it is dropped with its owner.
Released_leaked(owned) == owned

Released(owned) == <<>>

\* The raw streams after subscription s took an item: each events() call made
\* its own session.event_stream(), so only the stream of s moves on to `rest`.
TakenFrom_shared(queues, s, rest) == [t \in DOMAIN queues |-> rest]

TakenFrom(queues, s, rest) == [queues EXCEPT ![s] = rest]

\* The record of one finished translation: the raw event and its arrival number,
\* what the registry held for its id when it fired (at) and when the lookup was
\* answered (reg), whether a lookup was issued (looked) and its result (res), and
\* what central_event returned (ev, warn).
Finished(item, looked, res, reg, t) ==
    [n |-> item.n, raw |-> item.raw, at |-> item.at, looked |-> looked,
     res |-> res, reg |-> reg, ev |-> t.ev, warn |-> t.warn]

\* The arrival numbers of the events yielded: one more when t yields an event.
Sources(sq, item, t) == IF t.ev = <<>> THEN sq ELSE Append(sq, item.n)

\* The pipeline takes the next raw event and runs central_event up to its first
\* await: a lookup is issued, or (the `_ => None` arm) the event is dropped at once.
Take(s) ==
    /\ status[s] = "live"
    /\ ReadyForNext(pending[s])
    /\ rawq[s] # <<>>
    /\ LET item == NextItem(rawq[s])
           rest == SelectSeq(rawq[s], LAMBDA x : x # item)
       IN  /\ rawq' = TakenFrom(rawq, s, rest)
           /\ order' = [order EXCEPT ![s] = Append(order[s], item.n)]
           /\ IF NeedsLookup(item.raw)
              THEN /\ pending' = [pending EXCEPT ![s] = <<item>>]
                   /\ UNCHANGED <<out, src, last>>
              ELSE LET t == central_event(item.raw, LookupErr)
                   IN  /\ out' = [out EXCEPT ![s] = Yield(out[s], t.ev)]
                       /\ src' = [src EXCEPT ![s] = Sources(src[s], item, t)]
                       /\ last' = [last EXCEPT ![s] =
                                      <<Finished(item, FALSE, LookupErr, NoDevice, t)>>]
                       /\ UNCHANGED pending
    /\ UNCHANGED <<registry, discovering, adapter, ret>>
    /\ UNCHANGED <<status, sub_err, rawclosed, failed, warnings, fired>>

\* The lookup answers and central_event runs to its end. The session may also
\* fail a lookup of a device it knows (a transport error): `failure`.
LookupDone(s, failure) ==
    /\ status[s] = "live"
    /\ pending[s] # <<>>
    /\ LET item == pending[s][1]
           res == IF failure THEN LookupErr ELSE lookup(registry, item)
           t == central_event(item.raw, res)
       IN  /\ out' = [out EXCEPT ![s] = Yield(out[s], t.ev)]
           /\ src' = [src EXCEPT ![s] = Sources(src[s], item, t)]
           /\ last' = [last EXCEPT ![s] =
                          <<Finished(item, TRUE, res, registry[item.raw.id], t)>>]
           /\ failed' = [failed EXCEPT ![s] = IF res.ok THEN failed[s] ELSE failed[s] \cup {item.n}]
           /\ warnings' = warnings + (IF t.warn THEN 1 ELSE 0)
    /\ pending' = [pending EXCEPT ![s] = <<>>]
    /\ UNCHANGED <<registry, discovering, adapter, ret>>
    /\ UNCHANGED <<status, sub_err, rawq, rawclosed, order, fired>>

\* The raw stream has ended and nothing is in flight: the sequence returns None.
StreamEnd(s) ==
    /\ status[s] = "live"
    /\ StreamDone(rawclosed[s], rawq[s], pending[s])
    /\ status' = [status EXCEPT ![s] = "ended"]
    /\ UNCHANGED <<registry, discovering, adapter, ret>>
    /\ UNCHANGED <<sub_err, rawq, rawclosed, pending, out, src, order, last, failed, warnings, fired>>

\* The consumer drops the sequence: the raw stream and any pending future go with it.
Drop(s) ==
    /\ status[s] = "live"
    /\ status' = [status EXCEPT ![s] = "dropped"]
    /\ rawq' = [rawq EXCEPT ![s] = Released(rawq[s])]
    /\ pending' = [pending EXCEPT ![s] = Released(pending[s])]
    /\ UNCHANGED <<registry, discovering, adapter, ret>>
    /\ UNCHANGED <<sub_err, rawclosed, out, src, order, last, failed, warnings, fired>>

\* The subscriptions of the single-consumer specification.
StreamSubs == {"sub1"}

\* The session's registry, the events() call and the pipeline of the subscriptions S.
Pipeline(S) ==
    \/ \E id \in EventIds, v \in Macs \cup {NoDevice} : RegistryChange(id, v)
    \/ \E s \in S : RawClose(s)
    \/ \E s \in S : EventsOk(s)
    \/ \E s \in S, error \in BluetoothErrors : EventsErr(s, error)
    \/ \E s \in S : Take(s)
    \/ \E s \in S, failure \in BOOLEAN : LookupDone(s, failure)
    \/ \E s \in S : StreamEnd(s)
    \/ \E s \in S : Drop(s)

(***************************************************************************)
(* Adapter: start_scan, stop_scan, peripherals, peripheral                 *)
(***************************************************************************)
\* The addresses peripheral() is asked for: the two a device may have, and one
\* no device has.
QueryAddrs == {BDAddrFrom(MacText(n)) : n \in {1, 2, 3}}

\* The answers of a session request that yields `values` on success.
Answers(values) == {SessionOk(v) : v \in values} \cup {SessionErr(e) : e \in BluetoothErrors}

StartScan(answer) ==
    /\ ret' = Returned("start_scan", <<>>, start_scan(adapter, answer),
                       SessionRequests("start_scan", discovering), <<>>, answer.error)
    /\ discovering' = IF answer.ok THEN TRUE ELSE discovering
    /\ UNCHANGED <<registry, adapter>>
    /\ UNCHANGED streamVars

StopScan(answer) ==
    /\ ret' = Returned("stop_scan", <<>>, stop_scan(adapter, answer),
                       SessionRequests("stop_scan", discovering), <<>>, answer.error)
    /\ discovering' = IF answer.ok THEN FALSE ELSE discovering
    /\ UNCHANGED <<registry, adapter>>
    /\ UNCHANGED streamVars

Peripherals(answer) ==
    /\ ret' = Returned("peripherals", <<>>, peripherals(adapter, answer),
                       SessionRequests("peripherals", discovering), answer.value, answer.error)
    /\ UNCHANGED <<registry, discovering, adapter>>
    /\ UNCHANGED streamVars

PeripheralByAddress(address, answer) ==
    /\ ret' = Returned("peripheral", <<address>>, peripheral(adapter, answer, address),
                       SessionRequests("peripheral", discovering), answer.value, answer.error)
    /\ UNCHANGED <<registry, discovering, adapter>>
    /\ UNCHANGED streamVars

\* start_scan, stop_scan, peripherals and peripheral, with every answer of the session.
CentralCalls ==
    \/ \E answer \in Answers({<<>>}) : StartScan(answer)
    \/ \E answer \in Answers({<<>>}) : StopScan(answer)
    \/ \E answer \in Answers(get_devices(registry)) : Peripherals(answer)
    \/ \E address \in QueryAddrs, answer \in Answers(get_devices(registry)) :
          PeripheralByAddress(address, answer)

\* The Central calls of one Adapter against a session whose registry changes.
NextCentral ==
    \/ \E id \in DeviceIds, v \in Macs \cup {NoDevice} : RegistryChange(id, v)
    \/ CentralCalls

SpecCentral == Init /\ [][NextCentral]_vars

\* One consumer, a stream of up to MaxRaw raw events.
Next ==
    \/ \E e \in StreamEvents : Notify(e, MaxRaw)
    \/ Pipeline(StreamSubs)

Spec == Init /\ [][Next]_vars

\* One consumer, the translator run on each raw event there is.
NextTranslate ==
    \/ \E e \in RawEvents : Notify(e, MaxOne)
    \/ Pipeline(StreamSubs)

SpecTranslate == Init /\ [][NextTranslate]_vars

\* The raw events of the runs that mix the Central calls with a subscription.
AdapterEvents ==
    {[type |-> "Device", id |-> "hci0/dev_1", event |-> [kind |-> "Discovered"]]}

\* The raw events of the runs with several subscriptions: one that is
\* translated after a lookup and one that is dropped without.
MultiEvents ==
    {[type |-> "Device", id |-> "hci0/dev_1", event |-> [kind |-> "Discovered"]],
     [type |-> "Adapter", id |-> "hci0", event |-> [kind |-> "Powered", powered |-> TRUE]]}

\* Several events() calls on one session, each with its own pipeline.  The
\* session keeps its raw streams open here; a subscription stops by being
\* left alone or dropped.
NextMulti ==
    \/ \E e \in MultiEvents : Notify(e, MaxRaw)
    \/ \E v \in {MacText(1), NoDevice} : RegistryChange("hci0/dev_1", v)
    \/ \E s \in Subs : EventsOk(s)
    \/ \E s \in Subs : Take(s)
    \/ \E s \in Subs, failure \in BOOLEAN : LookupDone(s, failure)
    \/ \E s \in Subs : Drop(s)

SpecMulti == Init /\ [][NextMulti]_vars

\* Every operation of one Adapter: events() and its pipeline, and the Central calls.
NextAdapter ==
    \/ \E e \in AdapterEvents : Notify(e, MaxOne)
    \/ Pipeline(StreamSubs)
    \/ CentralCalls

SpecAdapter == Init /\ [][NextAdapter]_vars

(***************************************************************************)
(* Properties                                                              *)
(***************************************************************************)
\* The BDAddr of "AA:BB:CC:DD:EE:0n", byte by byte.
Addr(n) == <<170, 187, 204, 221, 238, n>>

IsDevice(r, kind) == r.raw.type = "Device" /\ r.raw.event.kind = kind

\* The event of the finished translation r is the latest element of the
\* sequence of s, and the only one that stems from r's raw event.
YieldedOnce(s, r) ==
    /\ Len(r.ev) = 1
    /\ Len(out[s]) = Len(src[s])
    /\ Len(out[s]) >= 1
    /\ out[s][Len(out[s])] = r.ev[1]
    /\ src[s][Len(src[s])] = r.n
    /\ Cardinality({i \in 1..Len(src[s]) : src[s][i] = r.n}) = 1

\* Nothing of the sequence of s stems from r's raw event.
YieldedNothing(s, r) ==
    /\ r.ev = <<>>
    /\ Len(out[s]) = Len(src[s])
    /\ \A i \in 1..Len(src[s]) : src[s][i] # r.n

\* C2: a "device discovered" notification whose lookup succeeds yields exactly
\* one event, a DeviceDiscovered, whose address is the address of the device
\* info the registry held for the notification's id when the lookup was answered.
C2_DiscoveredYieldsOne ==
    \A s \in Subs : last[s] # <<>> =>
        LET r == last[s][1]
        IN  (IsDevice(r, "Discovered") /\ r.looked /\ r.res.ok) =>
                /\ r.res.device[1] = DeviceInfo(r.raw.id, r.reg)
                /\ r.reg # NoDevice
                /\ r.ev = <<[tag |-> "DeviceDiscovered", address |-> BDAddrFrom(r.reg)]>>
                /\ YieldedOnce(s, r)

C2_Witness ==
    \E s \in Subs : /\ last[s] # <<>>
                    /\ IsDevice(last[s][1], "Discovered")
                    /\ last[s][1].res.ok
                    /\ last[s][1].raw.id = "hci1/dev_1"
                    /\ out[s] = <<[tag |-> "DeviceDiscovered", address |-> Addr(2)]>>

\* C3: a connection-state notification whose lookup succeeds yields exactly one
\* event, DeviceConnected when its flag is true and DeviceDisconnected when it is
\* false, with the looked-up address; no other variant comes from it.
C3_ConnectedByFlag ==
    \A s \in Subs : last[s] # <<>> =>
        LET r == last[s][1]
        IN  IsDevice(r, "Connected") =>
                /\ \A i \in 1..Len(r.ev) : r.ev[i].tag \in {"DeviceConnected", "DeviceDisconnected"}
                /\ (r.looked /\ r.res.ok) =>
                      /\ r.reg # NoDevice
                      /\ r.ev = <<[tag |-> IF r.raw.event.connected THEN "DeviceConnected"
                                           ELSE "DeviceDisconnected",
                                   address |-> BDAddrFrom(r.reg)]>>
                      /\ YieldedOnce(s, r)

C3_Witness ==
    \E s \in Subs : /\ last[s] # <<>>
                    /\ IsDevice(last[s][1], "Connected")
                    /\ ~last[s][1].raw.event.connected
                    /\ last[s][1].res.ok
                    /\ out[s] = <<[tag |-> "DeviceDisconnected", address |-> Addr(1)]>>

\* C4: a manufacturer-data notification with an empty map yields no event; with
\* one or more entries and a successful lookup it yields exactly one
\* ManufacturerDataAdvertisement made of the map's first entry and the looked-up
\* address; with more than one entry a warning is logged and still one event is
\* yielded.
C4_ManufacturerDataFirstEntry ==
    \A s \in Subs : last[s] # <<>> =>
        LET r == last[s][1]
            m == r.raw.event.manufacturer_data
        IN  IsDevice(r, "ManufacturerData") =>
                /\ Len(r.ev) <= 1
                /\ m = <<>> => YieldedNothing(s, r)
                /\ (m # <<>> /\ r.looked /\ r.res.ok) =>
                      /\ r.reg # NoDevice
                      /\ r.ev = <<[tag |-> "ManufacturerDataAdvertisement",
                                   address |-> BDAddrFrom(r.reg),
                                   manufacturer_id |-> m[1][1],
                                   data |-> m[1][2]]>>
                      /\ YieldedOnce(s, r)
                      /\ Len(m) > 1 => (r.warn /\ warnings >= 1)

C4_Witness ==
    \E s \in Subs : /\ last[s] # <<>>
                    /\ IsDevice(last[s][1], "ManufacturerData")
                    /\ last[s][1].raw.event.manufacturer_data = <<MfrNordic, MfrApple>>
                    /\ warnings = 1
                    /\ out[s] = <<[tag |-> "ManufacturerDataAdvertisement", address |-> Addr(1),
                                   manufacturer_id |-> 89, data |-> <<1>>]>>

\* C10: every event yielded carries the address the registry held for the
\* notification's id when the lookup was answered, whatever it held when the
\* notification fired; if the registry holds nothing for the id by then, the
\* notification is dropped.
C10_AddressAsOfLookup ==
    \A s \in Subs : last[s] # <<>> =>
        LET r == last[s][1]
        IN  /\ r.ev # <<>> =>
                /\ r.looked
                /\ r.reg # NoDevice
                /\ r.ev[1].address = BDAddrFrom(r.reg)
                /\ YieldedOnce(s, r)
            /\ (r.looked /\ r.reg = NoDevice) => YieldedNothing(s, r)

C10_Witness ==
    \E s \in Subs : /\ last[s] # <<>>
                    /\ last[s][1].at = MacText(1)
                    /\ last[s][1].reg = MacText(2)
                    /\ last[s][1].ev # <<>>
                    /\ out[s][Len(out[s])].address = Addr(2)

\* A step in which a lookup of subscription s has just failed.
LookupFailedStep(s) ==
    /\ last'[s] # last[s]
    /\ last'[s] # <<>>
    /\ last'[s][1].looked
    /\ ~last'[s][1].res.ok

\* C1: a device notification whose lookup fails yields no event and raises no
\* error, and the subscription keeps going: it is live and ready for the next
\* raw event, with its queue and everything it yielded so far untouched.
C1_LookupFailureDrops ==
    [][\A s \in Subs : LookupFailedStep(s) =>
          /\ NeedsLookup(last'[s][1].raw)
          /\ last'[s][1].ev = <<>>
          /\ last'[s][1].n \in failed'[s]
          /\ out'[s] = out[s]
          /\ src'[s] = src[s]
          /\ sub_err'[s] = <<>>
          /\ status[s] = "live"
          /\ status'[s] = "live"
          /\ pending'[s] = <<>>
          /\ rawq'[s] = rawq[s]
          /\ rawclosed'[s] = rawclosed[s]]_vars

\* The first raw event's lookup failed; the second one was translated and yielded.
C1_Witness ==
    \E s \in Subs : /\ failed[s] = {1}
                    /\ order[s] = <<1, 2>>
                    /\ last[s] # <<>>
                    /\ last[s][1].n = 2
                    /\ last[s][1].res.ok
                    /\ src[s] = <<2>>
                    /\ out[s] = last[s][1].ev

Increasing(sq) == \A i, j \in 1..Len(sq) : i < j => sq[i] < sq[j]

\* C8 as first stated: the sequence never ends unless the consumer stops
\* consuming it, and events() reports no error but the failure to subscribe.
C8_EndsOnlyByConsumer ==
    \A s \in Subs : /\ status[s] # "ended"
                    /\ sub_err[s] # <<>> => status[s] = "failed"

\* C8: the sequence never ends on its own and never reports an error for a
\* failed lookup: it ends only when the consumer drops it or when the session's
\* raw stream has ended and every raw event delivered was translated; the only
\* error of events() is the failure to subscribe, returned before any raw event
\* is taken.
C8_EndsOnlyWithRawStream ==
    \A s \in Subs :
        /\ status[s] = "ended" => (rawclosed[s] /\ rawq[s] = <<>> /\ pending[s] = <<>>)
        /\ sub_err[s] # <<>> => (status[s] = "failed" /\ order[s] = <<>> /\ out[s] = <<>>)
        /\ status[s] = "failed" => \E e \in BluetoothErrors :
                                      sub_err[s] = <<[tag |-> "Other", msg |-> to_string(e)]>>
        /\ failed[s] # {} => sub_err[s] = <<>>
        /\ (failed[s] # {} /\ ~rawclosed[s]) => status[s] \in {"live", "dropped"}

\* A lookup failed, a later event was yielded, and the sequence ended only
\* after the raw stream had.
C8_Witness ==
    \E s \in Subs : /\ status[s] = "ended"
                    /\ rawclosed[s]
                    /\ failed[s] = {1}
                    /\ src[s] = <<2>>

\* C9: the events are yielded in the arrival order of their raw events, at most
\* one per raw event, and each is the translation of a raw event the pipeline
\* took from the raw stream.
C9_ArrivalOrder ==
    [][\A s \in Subs :
          /\ Increasing([i \in 1..Len(rawq'[s]) |-> rawq'[s][i].n])
          /\ Increasing(order'[s])
          /\ Increasing(src'[s])
          /\ Len(out'[s]) = Len(src'[s])
          /\ \A i \in 1..Len(src'[s]) : \E k \in 1..Len(order'[s]) : order'[s][k] = src'[s][i]
          /\ out'[s] # out[s] =>
                /\ last'[s] # <<>>
                /\ last'[s] # last[s]
                /\ Len(last'[s][1].ev) = 1
                /\ out'[s] = Append(out[s], last'[s][1].ev[1])
                /\ src'[s] = Append(src[s], last'[s][1].n)
                /\ last'[s][1].ev = central_event(last'[s][1].raw, last'[s][1].res).ev
                /\ \/ /\ pending[s] # <<>>
                      /\ pending[s][1].n = last'[s][1].n
                      /\ pending[s][1].raw = last'[s][1].raw
                   \/ /\ pending[s] = <<>>
                      /\ rawq[s] # <<>>
                      /\ rawq[s][1].n = last'[s][1].n
                      /\ rawq[s][1].raw = last'[s][1].raw]_vars

\* Two raw events were waiting together and their events came out in arrival order.
C9_Witness ==
    \E s \in Subs : /\ src[s] = <<1, 2>>
                    /\ Len(out[s]) = 2
                    /\ out[s][1].tag = "DeviceDisconnected"
                    /\ out[s][2].tag = "DeviceDiscovered"

\* C5: peripheral(address), once the device list is obtained, returns the
\* Peripheral of the first device of the list whose address is the argument,
\* also when several devices have it, and fails with DeviceNotFound exactly
\* when no device of the list has it.
C5_PeripheralFirstMatch ==
    (ret.op = "peripheral" /\ ret.session_err = <<>>) =>
        LET devices == ret.devices
            hits == {i \in 1..Len(devices) : BDAddrFrom(devices[i].mac_address) = ret.arg[1]}
        IN  /\ hits = {} <=> (~ret.ok /\ ret.err = <<[tag |-> "DeviceNotFound", msg |-> ""]>>)
            /\ hits # {} <=> ret.ok
            /\ \A i \in hits : (\A j \in hits : i <= j) =>
                   ret.val = <<[session |-> adapter.session, device |-> devices[i]]>>

\* Two devices of the list have the address asked for; the one listed first is
\* returned although it is not the session's first id.
C5_Witness ==
    /\ ret.op = "peripheral"
    /\ ret.ok
    /\ ret.arg = <<Addr(2)>>
    /\ Len(ret.devices) = 3
    /\ ret.devices[1].mac_address = MacText(1)
    /\ ret.devices[2].mac_address = MacText(2)
    /\ ret.devices[3].mac_address = MacText(2)
    /\ ret.val[1].device = ret.devices[2]
    /\ ret.val[1].device.id = "hci1/dev_1"

\* C6: peripherals(), once the device list is obtained, returns one Peripheral
\* per device of the list, unfiltered: as many as the list has, each wrapping
\* the device at its place, duplicates of an address included.
C6_PeripheralsOnePerDevice ==
    (ret.op = "peripherals" /\ ret.session_err = <<>>) =>
        /\ ret.ok
        /\ Len(ret.val) = Len(ret.devices)
        /\ \A i \in 1..Len(ret.devices) :
              ret.val[i] = [session |-> adapter.session, device |-> ret.devices[i]]

C6_Witness ==
    /\ ret.op = "peripherals"
    /\ ret.ok
    /\ Len(ret.val) = 3
    /\ ret.val[1].device.mac_address = ret.val[3].device.mac_address
    /\ ret.val[1].device.mac_address # ret.val[2].device.mac_address

\* A step in which start_scan or stop_scan has just returned a session failure.
ScanFailedStep ==
    /\ ret' # ret
    /\ ret'.op \in {"start_scan", "stop_scan"}
    /\ ret'.session_err # <<>>

\* C7: when start_discovery or stop_discovery fails, start_scan or stop_scan
\* returns Error::Other with the session error's message, and neither the
\* Adapter (session handle, adapter id) nor anything a later call reads has
\* changed.
C7_ScanFailurePropagates ==
    [][ScanFailedStep =>
          /\ ~ret'.ok
          /\ ret'.val = <<>>
          /\ ret'.err = <<[tag |-> "Other", msg |-> to_string(ret'.session_err[1])]>>
          /\ adapter' = adapter
          /\ adapter' = [session |-> "session", adapter |-> "hci0"]
          /\ discovering' = discovering
          /\ registry' = registry
          /\ UNCHANGED streamVars]_vars

\* start_scan failed while discovery was on, and discovery is still on.
C7_Witness ==
    /\ ret.op = "start_scan"
    /\ ~ret.ok
    /\ ret.err = <<[tag |-> "Other", msg |-> "Service discovery timed out"]>>
    /\ discovering
    /\ adapter = [session |-> "session", adapter |-> "hci0"]

\* C15 as stated: a manufacturer-data notification with an empty map is
\* dropped without a device-info lookup being issued to the session.
C15_EmptyMapNoLookup ==
    \A s \in Subs :
        /\ pending[s] # <<>> =>
              ~(IsDevice(pending[s][1], "ManufacturerData")
                /\ pending[s][1].raw.event.manufacturer_data = <<>>)
        /\ (/\ last[s] # <<>>
            /\ IsDevice(last[s][1], "ManufacturerData")
            /\ last[s][1].raw.event.manufacturer_data = <<>>) => ~last[s][1].looked

\* A raw event central_event has no lookup arm for.
IsOther(raw) ==
    \/ raw.type # "Device"
    \/ raw.event.kind \notin {"Discovered", "Connected", "RSSI", "ManufacturerData"}

\* C16: a raw event that is no discovered, connection-state, signal-strength or
\* manufacturer-data notification is dropped: no lookup is issued for it, it
\* yields nothing, and the subscription is live and ready for the next raw
\* event as soon as it is taken.
C16_OtherEventsDropped ==
    [][\A s \in Subs :
          /\ pending'[s] # <<>> => ~IsOther(pending'[s][1].raw)
          /\ (last'[s] # last[s] /\ last'[s] # <<>> /\ IsOther(last'[s][1].raw)) =>
                /\ ~last'[s][1].looked
                /\ last'[s][1].ev = <<>>
                /\ last'[s][1].n \notin failed'[s]
                /\ out'[s] = out[s]
                /\ src'[s] = src[s]
                /\ warnings' = warnings
                /\ status[s] = "live"
                /\ status'[s] = "live"
                /\ sub_err'[s] = <<>>
                /\ pending[s] = <<>>
                /\ pending'[s] = <<>>
                /\ rawq[s] # <<>>
                /\ rawq'[s] = Tail(rawq[s])]_vars

\* An unrecognized device event of a registered device was taken and dropped.
C16_Witness ==
    \E s \in Subs : /\ last[s] # <<>>
                    /\ last[s][1].raw.type = "Device"
                    /\ last[s][1].raw.event.kind = "ServicesResolved"
                    /\ last[s][1].at = MacText(1)
                    /\ ~last[s][1].looked
                    /\ out[s] = <<>>
                    /\ status[s] = "live"

\* C17: a signal-strength notification whose lookup succeeds yields exactly one
\* DeviceUpdated with the looked-up address, whatever its rssi; it never yields
\* DeviceDiscovered, also when nothing was translated for the device before.
C17_RssiYieldsUpdated ==
    \A s \in Subs : last[s] # <<>> =>
        LET r == last[s][1]
        IN  IsDevice(r, "RSSI") =>
                /\ \A i \in 1..Len(r.ev) : r.ev[i].tag = "DeviceUpdated"
                /\ (r.looked /\ r.res.ok) =>
                      /\ r.reg # NoDevice
                      /\ r.ev = <<[tag |-> "DeviceUpdated", address |-> BDAddrFrom(r.reg)]>>
                      /\ YieldedOnce(s, r)

\* The first raw event of the subscription is an RSSI notification.
C17_Witness ==
    \E s \in Subs : /\ last[s] # <<>>
                    /\ IsDevice(last[s][1], "RSSI")
                    /\ last[s][1].raw.event.rssi = -40
                    /\ last[s][1].n = 1
                    /\ order[s] = <<1>>
                    /\ out[s] = <<[tag |-> "DeviceUpdated", address |-> Addr(2)]>>

\* C19: a warning is logged exactly when a manufacturer-data notification with
\* more than one entry has its lookup succeed; a notification whose lookup
\* fails logs nothing, whatever its kind and number of entries.
C19_WarnOnlyAfterLookup ==
    [][/\ (\A s \in Subs : last'[s] = last[s]) => warnings' = warnings
       /\ \A s \in Subs : (last'[s] # last[s] /\ last'[s] # <<>>) =>
             LET r == last'[s][1]
                 excess == /\ IsDevice(r, "ManufacturerData")
                           /\ Len(r.raw.event.manufacturer_data) > 1
                           /\ r.looked
                           /\ r.res.ok
             IN  /\ r.warn <=> excess
                 /\ warnings' = warnings + (IF excess THEN 1 ELSE 0)]_vars

\* A manufacturer-data notification with two entries failed its lookup: no warning.
C19_Witness ==
    \E s \in Subs : /\ last[s] # <<>>
                    /\ IsDevice(last[s][1], "ManufacturerData")
                    /\ Len(last[s][1].raw.event.manufacturer_data) = 2
                    /\ last[s][1].looked
                    /\ ~last[s][1].res.ok
                    /\ warnings = 0

\* C13: when the session fails to establish the raw subscription, events()
\* returns Error::Other with the session error's message after its one request:
\* there is no sequence, nothing is taken and no lookup is issued; when
\* get_devices fails, peripherals() returns Error::Other with the message and
\* no list.
C13_SessionFailureReturned ==
    /\ (ret.op = "events" /\ ret.session_err # <<>>) =>
          /\ ~ret.ok
          /\ ret.val = <<>>
          /\ ret.err = <<[tag |-> "Other", msg |-> to_string(ret.session_err[1])]>>
          /\ ret.requests = <<"event_stream">>
    /\ \A s \in Subs : status[s] = "failed" =>
          /\ \E e \in BluetoothErrors : sub_err[s] = <<[tag |-> "Other", msg |-> to_string(e)]>>
          /\ rawq[s] = <<>>
          /\ pending[s] = <<>>
          /\ order[s] = <<>>
          /\ last[s] = <<>>
          /\ out[s] = <<>>
    /\ (ret.op = "peripherals" /\ ret.session_err # <<>>) =>
          /\ ~ret.ok
          /\ ret.val = <<>>
          /\ ret.err = <<[tag |-> "Other", msg |-> to_string(ret.session_err[1])]>>
          /\ ret.requests = <<"get_devices">>

\* events() has failed, and peripherals() failed while the session knew a device.
C13_Witness ==
    /\ status["sub1"] = "failed"
    /\ sub_err["sub1"] = <<[tag |-> "Other", msg |-> "D-Bus error"]>>
    /\ ret.op = "peripherals"
    /\ ret.err = <<[tag |-> "Other", msg |-> "Service discovery timed out"]>>
    /\ ret.val = <<>>
    /\ registry["hci0/dev_1"] # NoDevice

\* The session request behind each Central call.
Capability(op) ==
    CASE op = "start_scan" -> "start_discovery"
      [] op = "stop_scan" -> "stop_discovery"
      [] op = "peripherals" -> "get_devices"
      [] op = "peripheral" -> "get_devices"

\* C14: start_scan, stop_scan, peripherals and peripheral each issue exactly one
\* request to the session (start_discovery, stop_discovery, get_devices,
\* get_devices) and return that request's outcome: its failure as Error::Other,
\* its success as the call's result, with no second request, whatever the
\* discovery state earlier calls have left.
C14_OneRoundTrip ==
    ret.op \in {"start_scan", "stop_scan", "peripherals", "peripheral"} =>
        /\ ret.requests = <<Capability(ret.op)>>
        /\ ret.session_err # <<>> =>
              (~ret.ok /\ ret.err = <<[tag |-> "Other", msg |-> to_string(ret.session_err[1])]>>)
        /\ (ret.session_err = <<>> /\ ret.op # "peripheral") => ret.ok
        /\ (ret.session_err = <<>> /\ ret.op = "peripheral") =>
              (ret.ok \/ ret.err = <<[tag |-> "DeviceNotFound", msg |-> ""]>>)

\* start_scan was called with discovery already on, and asked the session again.
C14_Witness ==
    /\ ret.op = "start_scan"
    /\ ret.requests = <<"start_discovery">>
    /\ ret.session_err = <<"DbusError">>
    /\ discovering

\* C20: peripheral(address) reports DeviceNotFound only after get_devices
\* succeeded with a list holding no device of that address; when get_devices
\* fails it reports Error::Other with the session's message, never
\* DeviceNotFound, also when no device has the address.
C20_NotFoundOnlyAfterList ==
    ret.op = "peripheral" =>
        /\ (ret.err # <<>> /\ ret.err[1].tag = "DeviceNotFound") =>
              /\ ret.session_err = <<>>
              /\ \A i \in 1..Len(ret.devices) :
                    BDAddrFrom(ret.devices[i].mac_address) # ret.arg[1]
        /\ ret.session_err # <<>> =>
              /\ ~ret.ok
              /\ ret.err = <<[tag |-> "Other", msg |-> to_string(ret.session_err[1])]>>

\* get_devices failed while the session knew no device at all.
C20_Witness ==
    /\ ret.op = "peripheral"
    /\ ret.session_err = <<"DbusError">>
    /\ ret.err = <<[tag |-> "Other", msg |-> "D-Bus error"]>>
    /\ \A d \in DeviceIds : registry[d] = NoDevice

\* C18: within one subscription at most one lookup is in flight, and the next
\* raw event is taken (and its lookup started) only when no lookup is in flight
\* and the event taken before it has finished, yielded or dropped.
C18_OneLookupAtATime ==
    [][\A s \in Subs :
          /\ Len(pending[s]) <= 1
          /\ order'[s] # order[s] =>
                /\ pending[s] = <<>>
                /\ order[s] # <<>> =>
                      (last[s] # <<>> /\ last[s][1].n = order[s][Len(order[s])])
                /\ rawq'[s] = Tail(rawq[s])
          /\ (pending'[s] # <<>> /\ pending'[s] # pending[s]) => order'[s] # order[s]]_vars

\* The second raw event's lookup is in flight, the first one's has finished.
C18_Witness ==
    /\ order["sub1"] = <<1, 2>>
    /\ pending["sub1"] # <<>>
    /\ pending["sub1"][1].n = 2
    /\ last["sub1"] # <<>>
    /\ last["sub1"][1].n = 1
    /\ last["sub1"][1].looked

\* C12: once the consumer has dropped the sequence, the subscription holds no
\* raw event and no pending lookup, the session delivers nothing more to it,
\* and nothing is taken, looked up or yielded on its behalf, also when the drop
\* came while a lookup was in flight.
C12_DropReleases ==
    [][\A s \in Subs :
          /\ status'[s] = "dropped" => (rawq'[s] = <<>> /\ pending'[s] = <<>>)
          /\ status[s] = "dropped" =>
                /\ status'[s] = "dropped"
                /\ order'[s] = order[s]
                /\ out'[s] = out[s]
                /\ src'[s] = src[s]
                /\ last'[s] = last[s]
                /\ failed'[s] = failed[s]]_vars

\* Dropped while the first event's lookup was in flight and a second event was
\* waiting in the raw stream.
C12_Witness ==
    /\ status["sub1"] = "dropped"
    /\ fired = 2
    /\ order["sub1"] = <<1>>
    /\ last["sub1"] = <<>>
    /\ failed["sub1"] = {}
    /\ out["sub1"] = <<>>

\* The arrival numbers of the raw events a subscription has received: those it
\* took, then those waiting in its raw stream.
Received(s) == order[s] \o [i \in 1..Len(rawq[s]) |-> rawq[s][i].n]

Contiguous(sq) == \A i \in 1..(Len(sq) - 1) : sq[i + 1] = sq[i] + 1

\* What belongs to the sequence of subscription s alone.
Own(s) == <<status[s], pending[s], out[s], src[s], order[s], last[s], failed[s]>>

OwnNext(s) == <<status'[s], pending'[s], out'[s], src'[s], order'[s], last'[s], failed'[s]>>

\* C11: with a session that delivers every raw event to every subscription,
\* each subscription receives and takes its raw events in arrival order with
\* none missing, added or repeated, and yields exactly the translations of the
\* events it took, whatever the other subscription does; a step of one
\* subscription (a take, a lookup answer, an end, a drop) changes nothing of
\* another, and a subscription's raw stream changes only by its own take or
\* drop or by a notification of the session.
C11_SubscriptionsIndependent ==
    [][\A s \in Subs :
          /\ Contiguous(Received(s))
          /\ (status[s] = "live" /\ ~rawclosed[s] /\ Received(s) # <<>>) =>
                Received(s)[Len(Received(s))] = fired
          /\ Increasing(src[s])
          /\ Len(out[s]) = Len(src[s])
          /\ \A i \in 1..Len(src[s]) :
                /\ \E j \in 1..Len(order[s]) : order[s][j] = src[s][i]
                /\ src[s][i] \notin failed[s]
          /\ last[s] # <<>> => last[s][1].ev = central_event(last[s][1].raw, last[s][1].res).ev
          /\ \A t \in Subs \ {s} :
                OwnNext(t) # Own(t) => (OwnNext(s) = Own(s) /\ rawq'[s] = rawq[s])
          /\ rawq'[s] # rawq[s] =>
                \/ order'[s] # order[s] /\ rawq'[s] = Tail(rawq[s])
                \/ status[s] = "live" /\ status'[s] = "dropped"
                \/ /\ fired' = fired + 1
                   /\ Len(rawq'[s]) = Len(rawq[s]) + 1
                   /\ rawq'[s][Len(rawq'[s])].n = fired']_vars

\* sub2 was dropped with its first lookup in flight; sub1 has yielded the
\* translation of the first raw event and dropped the second.
C11_Witness ==
    /\ status["sub2"] = "dropped"
    /\ order["sub2"] = <<1>>
    /\ last["sub2"] = <<>>
    /\ status["sub1"] = "live"
    /\ order["sub1"] = <<1, 2>>
    /\ src["sub1"] = <<1>>
    /\ Len(out["sub1"]) = 1
    /\ out["sub1"][1].tag = "DeviceDiscovered"

=============================================================================
